---- MODULE Spec2Model ----
(***************************************************************************)
(* gc-cli as state machines, one specification per subsystem:              *)
(*                                                                         *)
(*   SpecClient   the resilient request layer of internal/api (retry,      *)
(*                backoff, error classification, pagination aggregation);  *)
(*                one behaviour is one List or Get of one Client.          *)
(*   SpecToken    the credential manager of internal/auth (TokenFromFile,  *)
(*                TokenToFile, RefreshToken, GetValidToken) with the token *)
(*                file, the clock and a reader in another process.         *)
(*   SpecAuth     the authorization flow of internal/auth (BrowserFlow,    *)
(*                startCallbackServer): the main goroutine, the callback   *)
(*                handlers, the channels and the listener.                 *)
(*   SpecAuthLive SpecAuth with weak fairness of the program's own steps.  *)
(*   SpecUI       the terminal UI of internal/tui (Run, New, Update and    *)
(*                its handlers, the load functions, View): one session of  *)
(*                at most MaxMessages messages.                            *)
(*   SpecPatch    one PatchStudentSubmission of one Client, with the body  *)
(*                each attempt's request carries.                          *)
(*   SpecList     one ListCourses page by page, for a server that may go   *)
(*                on returning cursors; weak fairness of its steps.        *)
(*   SpecManual   the manual paste flow of the auth.go listed in the plan  *)
(*                (BrowserFlow's fallback, manualFlow).                    *)
(*                                                                         *)
(* Durations are in whole seconds (initialDelay = time.Second = 1).        *)
(***************************************************************************)
EXTENDS Integers, Sequences, FiniteSets, TLC

(* ------------------------------ bounds -------------------------------- *)

\* Largest retry count handed to WithRetries (the default, 3, is also used).
MaxRetries == 1

\* A server listing has at most this many pages: the page that would be the
\* MaxPages-th carries no cursor. (SpecList has no such limit: there
\* MaxPages bounds the items only.)
MaxPages == 2

\* The wall clock runs from 0 to MaxTime.
MaxTime == 2

\* Requests that reach the callback listener during one authorization.
MaxCallbacks == 3

(* ------------------------- program constants -------------------------- *)

defaultRetry == 3

initialDelay == 1

maxDelay == 32

(* --------------------------- client options --------------------------- *)

\* An option list is modelled per option kind: <<>> when the option is not
\* given, <<v>> when it is.
RetryOpts == {<<>>} \cup {<<n>> : n \in (0 - 1)..MaxRetries}

BackoffOpts == {<<>>, <<0>>, <<64>>}

PageSizes == {0, 2}

WithRetries(client, n) == [client EXCEPT !.retries = n]

WithBackoff(client, d) == [client EXCEPT !.backoff = d]

NewClient(ro, bo) ==
  LET c0 == [retries |-> defaultRetry, backoff |-> initialDelay]
      c1 == IF ro = <<>> THEN c0 ELSE WithRetries(c0, ro[1])
  IN  IF bo = <<>> THEN c1 ELSE WithBackoff(c1, bo[1])

(* ------------------------- responses and bodies ----------------------- *)

\* A body is its raw text together with what encoding/json makes of it:
\* json says whether it is a JSON object at all; code, message and status are
\* the APIError fields it carries (0 / "" when absent); items and next are the
\* list fields it carries (empty when absent).
Body(raw, json, code, message, status, items, next) ==
  [raw |-> raw, json |-> json, code |-> code, message |-> message,
   status |-> status, items |-> items, next |-> next]

EmptyBody == Body("", FALSE, 0, "", "", <<>>, "")

HtmlBody == Body("<html>", FALSE, 0, "", "", <<>>, "")

ErrBodies ==
  { EmptyBody,
    HtmlBody,
    Body("{}", TRUE, 0, "", "", <<>>, ""),
    Body("{code:404,message:gone,status:NOT_FOUND}", TRUE, 404, "gone", "NOT_FOUND", <<>>, ""),
    Body("{code:418,message:teapot}", TRUE, 418, "teapot", "", <<>>, "") }

Tokens == {"t1", "t2"}

PageItems == {<<>>, <<"a">>, <<"a", "b">>}

PageBody(items, next) == Body("{page}", TRUE, 0, "", "", items, next)

\* The bodies a server may send with a success status when n pages were
\* already served: a listing page (with a cursor only while pages remain), or
\* text that is no JSON.
OkBodies(n) ==
  {PageBody(it, "") : it \in PageItems}
    \cup (IF n + 1 < MaxPages
          THEN {PageBody(it, t) : it \in PageItems, t \in Tokens}
          ELSE {})
    \cup {HtmlBody}

ErrStatuses == {400, 403, 404, 429, 500, 503}

Response(status, body) == [status |-> status, body |-> body]

(* ------------------------------- errors ------------------------------- *)

\* kind: "nil" (no error), "api" (*APIError), "plain" (fmt.Errorf text for an
\* unparsable body), "readbody" (the body could not be read), "ctx"
\* (context.Canceled, bare or wrapped), "transport" (httpClient.Do failed),
\* "decode" (json.Unmarshal of a success body failed).
Err(kind, code, message, status) ==
  [kind |-> kind, code |-> code, message |-> message, status |-> status, wrap |-> ""]

NoErr == Err("nil", 0, "", "")

\* fmt.Errorf("...: %w", err): the chain keeps the wrapped error, so errors.As
\* and errors.Is still see it.
Wrap(text, err) == [err EXCEPT !.wrap = text]

IsNotFound(err) == err.kind = "api" /\ (err.code = 404 \/ err.status = "NOT_FOUND")

IsForbidden(err) == err.kind = "api" /\ (err.code = 403 \/ err.status = "PERMISSION_DENIED")

IsRateLimited(err) == err.kind = "api" /\ (err.code = 429 \/ err.status = "RESOURCE_EXHAUSTED")

IsCancelled(err) == err.kind = "ctx"

\* io.ReadAll(resp.Body). Reading a response body after Close fails ("http:
\* read on closed response body"), except for the bodiless response
\* (http.NoBody), whose Read is EOF whatever was closed. (A read of an open
\* body that fails midway is the action RespondUnreadable.)
ReadAll(body, closed) ==
  IF closed /\ body.raw # "" THEN [ok |-> FALSE, data |-> EmptyBody]
  ELSE [ok |-> TRUE, data |-> body]

parseError(resp, closed) ==
  LET rd == ReadAll(resp.body, closed) IN
  IF ~rd.ok THEN Err("readbody", 0, "failed to read response body", "")
  ELSE IF ~rd.data.json THEN Err("plain", resp.status, rd.data.raw, "")
  ELSE Err("api",
           IF rd.data.code = 0 THEN resp.status ELSE rd.data.code,
           IF rd.data.message = "" THEN rd.data.raw ELSE rd.data.message,
           rd.data.status)

(* --------------------------- request helpers -------------------------- *)

\* Faulty variant of buildListParams: the cursor is never sent.
buildListParamsNoToken(pageSize, pageToken) ==
  [pageSize |-> IF pageSize > 0 THEN <<pageSize>> ELSE <<>>, pageToken |-> <<>>]

\* url.Values as a record of optional entries (<<>> when the key is not set).
buildListParams(pageSize, pageToken) ==
  [pageSize |-> IF pageSize > 0 THEN <<pageSize>> ELSE <<>>,
   pageToken |-> IF pageToken # "" THEN <<pageToken>> ELSE <<>>]

\* for i := 0; i <= c.retries; i++
LoopCond(i, retries) == i <= retries

\* Faulty variant of AttemptsRemain: off by one, a retry after the last attempt.
AttemptsRemainInclusive(i, retries) == i <= retries

\* Faulty variant of AttemptsRemain: off by one, the last retry is given up.
AttemptsRemainShort(i, retries) == i + 1 < retries

\* if i < c.retries
AttemptsRemain(i, retries) == i < retries

\* backoff *= 2; if backoff > maxDelay { backoff = maxDelay }
NextBackoff(b) == IF b * 2 > maxDelay THEN maxDelay ELSE b * 2

\* Faulty variant of ServerFailure: every remaining error status is retried.
ServerFailureAny4xx(status) == status >= 400

\* if resp.StatusCode >= 500
ServerFailure(status) == status >= 500

\* Faulty variant of CtxAborts: the request is built without the context.
CtxIgnored(done) == FALSE

\* http.NewRequestWithContext + httpClient.Do: with the context already done
\* the transport returns the context's error and sends nothing.
CtxAborts(done) == done

\* Faulty variant of BeginRequest: the loop state is kept across requests.
BeginRequestCarried(client, prevI, prevBackoff) == [i |-> prevI, backoff |-> prevBackoff]

\* backoff := c.backoff; i := 0 (prevI and prevBackoff are the values the
\* previous request of this client ended with: the code reads neither).
BeginRequest(client, prevI, prevBackoff) == [i |-> 0, backoff |-> client.backoff]

\* The body of the retry loop once attempt number i has its response: wait and
\* retry, return the response, or return an error (parseError of a body that
\* was closed before, for a final 429 or 5xx).
AfterResponse(resp, i, retries) ==
  IF resp.status = 429 THEN
    IF AttemptsRemain(i, retries) THEN [next |-> "wait", err |-> NoErr]
    ELSE [next |-> "err", err |-> parseError(resp, TRUE)]
  ELSE IF resp.status < 400 THEN [next |-> "ok", err |-> NoErr]
  ELSE IF resp.status = 404 \/ resp.status = 403 THEN
    [next |-> "err", err |-> parseError(resp, FALSE)]
  ELSE IF ServerFailure(resp.status) /\ AttemptsRemain(i, retries) THEN
    [next |-> "wait", err |-> NoErr]
  ELSE [next |-> "err", err |-> parseError(resp, ServerFailure(resp.status))]

\* Faulty variant of ListFail: the pages aggregated so far are returned.
ListFailPartial(allSoFar, text, err) == [err |-> Wrap(text, err), items |-> allSoFar, token |-> ""]

\* return nil, "", fmt.Errorf("failed to ...: %w", err)
ListFail(allSoFar, text, err) == [err |-> Wrap(text, err), items |-> <<>>, token |-> ""]

\* return allCourses, pageToken, nil
ListOk(allItems, pageToken) == [err |-> NoErr, items |-> allItems, token |-> pageToken]

\* allCourses = append(allCourses, result.Courses...)
AppendPage(allSoFar, items) == allSoFar \o items

(* ---------------------------- credentials ----------------------------- *)

\* oauth2.Token, with the fields the token file keeps. Expiry is a time of the
\* wall clock.
Token(access, refresh, expiry) ==
  [AccessToken |-> access, RefreshToken |-> refresh, Expiry |-> expiry]

\* The nil *oauth2.Token.
NoToken == Token("", "", 0)

\* The credentials a login can have left in the token file: Google's token
\* endpoint always answers with an access token and an expires_in, and with a
\* refresh token only when offline access was granted.
StoredTokens ==
  {Token("a0", r, e) : r \in {"", "r1"}, e \in 1..(MaxTime + 1)}

\* json.Marshal(token): the bytes of the file, one element per field, in the
\* order they are written.
MarshalNoExpiry(t) == <<t.AccessToken, t.RefreshToken, 0>>

Marshal(t) == <<t.AccessToken, t.RefreshToken, t.Expiry>>

\* json.Unmarshal(data, &token): fails on an empty or truncated document.
Unmarshal(data) ==
  IF Len(data) = 3
    THEN [err |-> "", token |-> Token(data[1], data[2], data[3])]
    ELSE [err |-> "unexpected end of JSON input", token |-> NoToken]

NoFile == [exists |-> FALSE, data |-> <<>>]

File(data) == [exists |-> TRUE, data |-> data]

TokenFromFile(f) ==
  IF ~f.exists
    THEN [err |-> "failed to read token file", token |-> NoToken]
    ELSE IF Unmarshal(f.data).err # ""
      THEN [err |-> "failed to parse token", token |-> NoToken]
      ELSE [err |-> "", token |-> Unmarshal(f.data).token]

\* token.Expiry.After(time.Now())
UnexpiredNever(t, n) == FALSE

Unexpired(t, n) == t.Expiry > n

\* A successful answer of the token endpoint to a refresh_token grant. The
\* refresh token is optional in it (Google leaves it out unless it rotates it).
TokenResponses ==
  [access_token : {"a1", "a2"}, refresh_token : {"", "r2"}, expires_in : {1, 2}]

\* ts.Token() on an expired token and a successful answer: the new access
\* token, the expiry counted from the time of the answer, and the answer's
\* refresh token or, when it has none, the one that was sent.
RefreshedDropping(t, resp, n) ==
  Token(resp.access_token, resp.refresh_token, n + resp.expires_in)

Refreshed(t, resp, n) ==
  Token(resp.access_token,
        IF resp.refresh_token = "" THEN t.RefreshToken ELSE resp.refresh_token,
        n + resp.expires_in)

\* Where GetValidToken goes when RefreshToken returned an error: it prints
\* the failure and falls through to the final return.
OnRefreshErrorRetry == "refresh"

OnRefreshError == "done"

ErrNoToken == "no valid token found, please run 'gc-cli auth login'"

ErrSave == "failed to save refreshed token"

ErrExpired == "token expired, please run 'gc-cli auth login'"

NoneGot == [err |-> "", token |-> NoToken]

NoneSeen == [err |-> "", token |-> NoToken, during |-> ""]

(* ---------------------------- authorization --------------------------- *)

\* The state BrowserFlow generates and startCallbackServer expects.
expectedState == "gc-cli-1"

\* The query of a request to /callback.
Queries ==
  [error : {"", "access_denied"}, state : {expectedState, "other"},
   code : {"", "c1"}]

\* The callback handler: the channel it sends to and the value it sends.
HandleNoStateCheck(query) ==
  IF query.error # ""
    THEN [ch |-> "err", val |-> "oauth error"]
    ELSE IF query.code = ""
      THEN [ch |-> "err", val |-> "no authorization code received"]
      ELSE [ch |-> "code", val |-> query.code]

Handle(query) ==
  IF query.error # ""
    THEN [ch |-> "err", val |-> "oauth error"]
    ELSE IF query.state # expectedState
      THEN [ch |-> "err", val |-> "state mismatch"]
      ELSE IF query.code = ""
        THEN [ch |-> "err", val |-> "no authorization code received"]
        ELSE [ch |-> "code", val |-> query.code]

\* The cases of startCallbackServer's select.
SelectCasesNoCtx == {"code", "err"}

SelectCases == {"code", "err", "ctx"}

\* listener.Close(), and the close of the listener in server.Shutdown.
CloseLeaking(l) == l

Close(l) == IF l = "open" THEN "closed" ELSE l

\* The outcomes of the browser launch: the command started, the command was
\* found and failed to start, no command was found.
Launches == {"started", "start failed", "no browser"}

\* openBrowser's error: it reports a missing command and drops the error of
\* cmd.Start().
openBrowser(outcome) ==
  IF outcome = "no browser" THEN "no suitable browser found" ELSE ""

NoFlow == [err |-> "", cause |-> "", token |-> ""]

\* The port of NewConfig's RedirectURL, "http://localhost:8080/callback".
redirectPort == 8080

\* A port the system gives to net.Listen("tcp", "localhost:0"): any free
\* one.
Ports == {redirectPort, 49152}

\* Where the provider sends the browser, and where the server of
\* startCallbackServer answers once its listener has bound port p.
RedirectURL ==
  [host |-> "localhost", port |-> redirectPort, path |-> "/callback"]

Serving(p) == [host |-> "localhost", port |-> p, path |-> "/callback"]

NoEvent == [kind |-> "", val |-> "", at |-> ""]

(* ----------------------------- terminal UI ---------------------------- *)
\* src/internal/tui/app.go (the second, API-backed version of the file).
\* A Model is a record with the fields of the Go struct that the handlers
\* read; Coursework, Grades and Announcements hold the number of items of
\* their list, Courses the IDs of its items, Menu the cursor of the menu.

\* The most messages a session delivers to Update.
MaxMessages == 7

\* The most items a coursework, grades or announcements answer holds.
MaxItems == 2

\* The views of the menu's items, in the order New adds them.
menuItems ==
  <<"ViewCourses", "ViewCoursework", "ViewGrades", "ViewAnnouncements",
    "ViewMainMenu">>

\* One key per binding of keys, and one that no binding of handleKey's
\* callees matches.
Keys == {"up", "down", "left", "right", "enter", "esc", "q", "r", "pgup"}

Key(k) == [type |-> "key", key |-> k, index |-> 0]

\* A left click, by the menu row it falls on (Len(menuItems): below the
\* last row).
MouseMsgs ==
  {[type |-> "mouse", key |-> "", index |-> y] : y \in 0..Len(menuItems)}

WindowSizeMsg == [type |-> "size", key |-> "", index |-> 0]

\* The active courses an answer of ListCourses holds.
CourseLists == {<<>>, <<"c1">>, <<"c1", "c2">>}

\* What GetMySubmission answers for each published coursework of a list.
SubmissionLists ==
  UNION {[1..n -> {"error", "graded", "ungraded"}] : n \in 0..MaxItems}

\* The answer to the fetch of a load: still awaited, an error, or the
\* list (courses for ListCourses, n items for ListCourseWork and
\* ListAnnouncements, one submission per published coursework for loadGrades).
Waiting == [state |-> "waiting", courses |-> <<>>, n |-> 0, subs |-> <<>>]

FetchError == [state |-> "error", courses |-> <<>>, n |-> 0, subs |-> <<>>]

Outcomes(view) ==
  {FetchError} \cup
  IF view \in {"ViewCourses", "ViewCoursePicker"}
  THEN {[state |-> "ok", courses |-> cs, n |-> 0, subs |-> <<>>] :
          cs \in CourseLists}
  ELSE IF view = "ViewGrades"
  THEN {[state |-> "ok", courses |-> <<>>, n |-> Len(s), subs |-> s] :
          s \in SubmissionLists}
  ELSE {[state |-> "ok", courses |-> <<>>, n |-> k, subs |-> <<>>] :
          k \in 0..MaxItems}

\* The Model New builds; exists is auth.TokenExists of the token file.
New(exists) ==
  [CurrentView |-> "ViewMainMenu",
   PreviousView |-> "ViewMainMenu",
   AuthState |-> IF exists THEN "AuthAuthenticated"
                 ELSE "AuthNotAuthenticated",
   Menu |-> 0,
   Courses |-> <<>>,
   Coursework |-> 0,
   Grades |-> 0,
   Announcements |-> 0,
   SelectedCoursework |-> 0,
   SelectedGrade |-> 0,
   SelectedAnnouncement |-> 0,
   SelectedCourseID |-> "",
   CoursePickerIndex |-> 0,
   IsLoading |-> FALSE,
   ErrorMsg |-> ""]

AuthRequired(m) ==
  [m EXCEPT !.CurrentView = "ViewAuthRequired",
            !.ErrorMsg = "Please authenticate first"]

\* The error branch of a load function; what is the message without the
\* error's text.
Failed(m, what) ==
  [m EXCEPT !.IsLoading = FALSE,
            !.ErrorMsg = what,
            !.CurrentView = "ViewError"]

loadCoursesForPicker(m, o) ==
  IF o.state = "waiting" THEN [m EXCEPT !.IsLoading = TRUE]
  ELSE IF o.state = "error" THEN Failed(m, "Failed to load classes")
  ELSE [m EXCEPT !.Courses = o.courses, !.IsLoading = FALSE]

loadCourses(m, o) ==
  IF m.AuthState # "AuthAuthenticated" THEN AuthRequired(m)
  ELSE loadCoursesForPicker(m, o)

loadCoursework(m, o) ==
  IF m.AuthState # "AuthAuthenticated" THEN AuthRequired(m)
  ELSE IF m.SelectedCourseID = ""
  THEN loadCoursesForPicker([m EXCEPT !.CurrentView = "ViewCoursePicker"], o)
  ELSE IF o.state = "waiting" THEN [m EXCEPT !.IsLoading = TRUE]
  ELSE IF o.state = "error" THEN Failed(m, "Failed to load classwork")
  ELSE [m EXCEPT !.Coursework = o.n,
                 !.SelectedCoursework = 0,
                 !.IsLoading = FALSE]

\* A submission whose fetch failed is skipped, and so is an ungraded one.
loadGrades(m, o) ==
  IF m.AuthState # "AuthAuthenticated" THEN AuthRequired(m)
  ELSE IF m.SelectedCourseID = ""
  THEN loadCoursesForPicker([m EXCEPT !.CurrentView = "ViewCoursePicker"], o)
  ELSE IF o.state = "waiting" THEN [m EXCEPT !.IsLoading = TRUE]
  ELSE IF o.state = "error" THEN Failed(m, "Failed to load grades")
  ELSE [m EXCEPT !.Grades =
                    Cardinality({k \in 1..Len(o.subs) : o.subs[k] = "graded"}),
                 !.IsLoading = FALSE]

loadAnnouncements(m, o) ==
  IF m.AuthState # "AuthAuthenticated" THEN AuthRequired(m)
  ELSE IF m.SelectedCourseID = ""
  THEN loadCoursesForPicker([m EXCEPT !.CurrentView = "ViewCoursePicker"], o)
  ELSE IF o.state = "waiting" THEN [m EXCEPT !.IsLoading = TRUE]
  ELSE IF o.state = "error" THEN Failed(m, "Failed to load announcements")
  ELSE [m EXCEPT !.Announcements = o.n, !.IsLoading = FALSE]

\* What a handler returns: the Model and the command ("quit" for tea.Quit).
Returns(m, cmd) == [m |-> m, cmd |-> cmd]

selectMenuItem(m, o) ==
  LET view == menuItems[m.Menu + 1]
      to == [m EXCEPT !.PreviousView = m.CurrentView, !.CurrentView = view]
  IN  CASE view = "ViewCourses" -> Returns(loadCourses(to, o), "")
        [] view = "ViewCoursework" -> Returns(loadCoursework(to, o), "")
        [] view = "ViewGrades" -> Returns(loadGrades(to, o), "")
        [] view = "ViewAnnouncements" -> Returns(loadAnnouncements(to, o), "")
        [] OTHER -> Returns(m, "quit")

handleMainMenuKey(m, key, o) ==
  CASE key = "up" ->
         Returns([m EXCEPT !.Menu = IF @ > 0 THEN @ - 1 ELSE @], "")
    [] key = "down" ->
         Returns([m EXCEPT !.Menu = IF @ < Len(menuItems) - 1 THEN @ + 1
                                    ELSE @], "")
    [] key \in {"enter", "right"} -> selectMenuItem(m, o)
    [] OTHER -> Returns(m, "")

handleCoursePickerSelect(m, o) ==
  IF m.CoursePickerIndex < 0 \/ m.CoursePickerIndex >= Len(m.Courses)
  THEN m
  ELSE LET picked ==
             [m EXCEPT !.SelectedCourseID = m.Courses[m.CoursePickerIndex + 1]]
       IN  CASE m.PreviousView = "ViewCoursework" ->
                  loadCoursework(
                    [picked EXCEPT !.CurrentView = "ViewCoursework"], o)
             [] m.PreviousView = "ViewGrades" ->
                  loadGrades([picked EXCEPT !.CurrentView = "ViewGrades"], o)
             [] m.PreviousView = "ViewAnnouncements" ->
                  loadAnnouncements(
                    [picked EXCEPT !.CurrentView = "ViewAnnouncements"], o)
             [] OTHER -> [picked EXCEPT !.CurrentView = "ViewMainMenu"]

handleCoursePickerKey(m, key, o) ==
  CASE key = "up" ->
         Returns([m EXCEPT !.CoursePickerIndex = IF @ > 0 THEN @ - 1 ELSE @],
                 "")
    [] key = "down" ->
         Returns([m EXCEPT !.CoursePickerIndex =
                             IF @ < Len(m.Courses) - 1 THEN @ + 1 ELSE @], "")
    [] key = "enter" -> Returns(handleCoursePickerSelect(m, o), "")
    [] OTHER -> Returns(m, "")

scrollUp(m) ==
  CASE m.CurrentView = "ViewCoursework" ->
         [m EXCEPT !.SelectedCoursework = IF @ > 0 THEN @ - 1 ELSE @]
    [] m.CurrentView = "ViewGrades" ->
         [m EXCEPT !.SelectedGrade = IF @ > 0 THEN @ - 1 ELSE @]
    [] m.CurrentView = "ViewAnnouncements" ->
         [m EXCEPT !.SelectedAnnouncement = IF @ > 0 THEN @ - 1 ELSE @]
    [] OTHER -> m

scrollDown(m) ==
  CASE m.CurrentView = "ViewCoursework" ->
         [m EXCEPT !.SelectedCoursework =
                     IF @ < m.Coursework - 1 THEN @ + 1 ELSE @]
    [] m.CurrentView = "ViewGrades" ->
         [m EXCEPT !.SelectedGrade = IF @ < m.Grades - 1 THEN @ + 1 ELSE @]
    [] m.CurrentView = "ViewAnnouncements" ->
         [m EXCEPT !.SelectedAnnouncement =
                     IF @ < m.Announcements - 1 THEN @ + 1 ELSE @]
    [] OTHER -> m

handleContentKey(m, key, o) ==
  IF key = "up" /\ m.CurrentView # "ViewCourses" THEN Returns(scrollUp(m), "")
  ELSE IF key = "down" /\ m.CurrentView # "ViewCourses"
  THEN Returns(scrollDown(m), "")
  ELSE IF key = "r"
  THEN CASE m.CurrentView = "ViewCourses" -> Returns(loadCourses(m, o), "")
         [] m.CurrentView = "ViewCoursework" ->
              Returns(loadCoursework(m, o), "")
         [] m.CurrentView = "ViewGrades" -> Returns(loadGrades(m, o), "")
         [] OTHER -> Returns(loadAnnouncements(m, o), "")
  ELSE Returns(m, "")

ContentViews ==
  {"ViewCourses", "ViewCoursework", "ViewGrades", "ViewAnnouncements"}

\* The views whose load function asks for a course first.
CourseViews == {"ViewCoursework", "ViewGrades", "ViewAnnouncements"}

\* handleKey without the test of the view under Quit.
handleKeyQuitAnywhere(m, key, o) ==
  LET menu == [m EXCEPT !.PreviousView = m.CurrentView,
                        !.CurrentView = "ViewMainMenu"]
  IN  IF key = "q" THEN Returns(m, "quit")
      ELSE IF key = "esc"
      THEN IF m.CurrentView # "ViewMainMenu" THEN Returns(menu, "")
           ELSE Returns(m, "")
      ELSE CASE m.CurrentView = "ViewMainMenu" -> handleMainMenuKey(m, key, o)
             [] m.CurrentView = "ViewCoursePicker" ->
                  handleCoursePickerKey(m, key, o)
             [] m.CurrentView \in ContentViews -> handleContentKey(m, key, o)
             [] m.CurrentView = "ViewAuthRequired" /\ key = "enter" ->
                  Returns(menu, "")
             [] OTHER -> Returns(m, "")

handleKey(m, key, o) ==
  LET menu == [m EXCEPT !.PreviousView = m.CurrentView,
                        !.CurrentView = "ViewMainMenu"]
  IN  IF key = "q"
      THEN IF m.CurrentView = "ViewMainMenu" THEN Returns(m, "quit")
           ELSE Returns(menu, "")
      ELSE IF key = "esc"
      THEN IF m.CurrentView # "ViewMainMenu" THEN Returns(menu, "")
           ELSE Returns(m, "")
      ELSE CASE m.CurrentView = "ViewMainMenu" -> handleMainMenuKey(m, key, o)
             [] m.CurrentView = "ViewCoursePicker" ->
                  handleCoursePickerKey(m, key, o)
             [] m.CurrentView \in ContentViews -> handleContentKey(m, key, o)
             [] m.CurrentView = "ViewAuthRequired" /\ key = "enter" ->
                  Returns(menu, "")
             [] OTHER -> Returns(m, "")

handleMouse(m, index, o) ==
  IF m.CurrentView = "ViewMainMenu" /\ index >= 0 /\ index < Len(menuItems)
  THEN selectMenuItem([m EXCEPT !.Menu = index], o)
  ELSE Returns(m, "")

\* Update, given the answer o to the fetch it makes (Waiting: the Model as
\* it stands while the call is blocked in that fetch).
Update(m, msg, o) ==
  CASE msg.type = "size" -> Returns(m, "")
    [] msg.type = "mouse" -> handleMouse(m, msg.index, o)
    [] OTHER -> handleKey(m, msg.key, o)

\* What View draws for a Model: the Loading indicator, or the Model's view
\* (nothing for a view View has no case for).
View(m) ==
  IF m.CurrentView \in ContentViews /\ m.IsLoading THEN "Loading"
  ELSE IF m.CurrentView = "ViewCoursePicker" THEN ""
  ELSE m.CurrentView

(* ------------------------------- state -------------------------------- *)

VARIABLES
  c,            \* the Client: [retries, backoff]
  op,           \* the operation called: "List" | "Get" ("" before the call)
  pageSize,     \* List's pageSize argument
  ctxDone,      \* the caller's context is cancelled
  pc,           \* "idle" | "loop" | "wait" | "done" | "panic"
  i,            \* doRequestWithRetry's loop index
  backoff,      \* doRequestWithRetry's local backoff
  pageToken,    \* List's pageToken
  all,          \* List's accumulated items
  result,       \* what the operation returned: [err, items, token]
  statuses,     \* history: the statuses answered to the latest request that made an attempt
  waits,        \* history: the backoff waits completed in that request
  payload,      \* history: the body of the latest response that was not retried
  pages,        \* history: the pages decoded, each with the params that asked for it
  sent,         \* history: HTTP requests handed to the network in this operation
  sentAtCancel  \* history: sent when the context was cancelled during a backoff wait (-1: never)

vars == <<c, op, pageSize, ctxDone, pc, i, backoff, pageToken, all, result,
          statuses, waits, payload, pages, sent, sentAtCancel>>

\* The credential subsystem (internal/auth) has its own state; the request
\* layer never touches it.
VARIABLES
  tokenFile,    \* the token file: [exists, data], data the bytes written so far
  now,          \* the wall clock, in whole time units
  tpc,          \* GetValidToken: "idle" | "refresh" | "save" | "write" | "done"
  token,        \* GetValidToken's token, as TokenFromFile returned it
  newToken,     \* GetValidToken's newToken, as RefreshToken returned it
  got,          \* what GetValidToken returned: [err, token]
  refreshes,    \* history: token requests sent to the provider in this call
  writes,       \* history: modifications of the token file in this call
  file0,        \* history: the token file when this call started
  checkedAt,    \* history: the time.Now() of this call's expiry test
  readerSaw     \* what a concurrent TokenFromFile returned last: [err, token]

tokenVars == <<tokenFile, now, tpc, token, newToken, got, refreshes, writes,
               file0, checkedAt, readerSaw>>

\* The authorization flow (BrowserFlow) has its own state too.
VARIABLES
  apc,          \* BrowserFlow: "idle" | "start" | "listen" | "serving" |
                \*   "select" | "shutdown" | "draining" | "exchange" | "returned"
                \*   (the plan's manualFlow: "fallback" | "paste" |
                \*   "manual exchange")
  authCtxDone,  \* BrowserFlow's ctx is cancelled
  listener,     \* the loopback listener: "none" | "open" | "closed"
  serving,      \* server.Serve is accepting connections
  codeChan,     \* the buffer of codeChan (capacity 1)
  errChan,      \* the buffer of errChan (capacity 1)
  sendq,        \* the sends blocked on a full channel: [ch, val] each
  chosen,       \* the case the select took: "" | "code" | "err" | "ctx"
                \*   (SpecManual: the error tryAutoCallback returned)
  recv,         \* the value that case received (SpecManual: the pasted code)
  flow,         \* what BrowserFlow returned: [err, cause, token]
  arrivals,     \* history: requests the callback handler has served
  first,        \* history: the first event of the wait: [kind, val, at]
                \*   (SpecManual: the pasted line and the state it carries)
  exchanges,    \* history: code exchanges sent to the token endpoint
  launch,       \* how the browser launch went ("" before it)
  urlPrinted,   \* BrowserFlow has printed the authorization URL
  port          \* the port net.Listen bound (0 before it)

authVars == <<apc, authCtxDone, listener, serving, codeChan, errChan, sendq,
              chosen, recv, flow, arrivals, first, exchanges, launch,
              urlPrinted, port>>

\* The terminal UI (tui.Run) has its own state too.
VARIABLES
  tui,          \* Run: "idle" | "start" | "running" | "fetching" (Update is
                \*   blocked in a fetch) | "quit" | "failed"
  credential,   \* the token file holds a "valid" token, an "expired" one
                \*   that cannot be refreshed, or is "missing"
  model,        \* the Model the program holds
  held,         \* while Update is blocked in a fetch: the message it was
                \*   called with and the Model it was called on, [m, msg]
  screen,       \* the frame on the screen: what View drew last
  delivered     \* the messages delivered to Update so far

uiVars == <<tui, credential, model, held, screen, delivered>>

\* A partial update (PatchStudentSubmission) has its request body too.
VARIABLES
  update,       \* the body json.Marshal made of the update (<<>> before it)
  reader,       \* how much of it has been read from patch's strings.Reader
  bodies        \* history: the body each attempt's request carried

patchVars == <<update, reader, bodies>>

allVars == <<vars, tokenVars, authVars, uiVars, patchVars>>

Ops == {"List", "Get"}

NoResult == [err |-> NoErr, items |-> <<>>, token |-> ""]

\* No GetValidToken call and no token file.
TokenIdle ==
  /\ tokenFile = NoFile
  /\ now = 0
  /\ tpc = "idle"
  /\ token = NoToken
  /\ newToken = NoToken
  /\ got = NoneGot
  /\ refreshes = 0
  /\ writes = 0
  /\ file0 = NoFile
  /\ checkedAt = 0
  /\ readerSaw = NoneSeen

\* No authorization flow.
AuthIdle ==
  /\ apc = "idle"
  /\ authCtxDone = FALSE
  /\ listener = "none"
  /\ serving = FALSE
  /\ codeChan = <<>>
  /\ errChan = <<>>
  /\ sendq = <<>>
  /\ chosen = ""
  /\ recv = ""
  /\ flow = NoFlow
  /\ arrivals = 0
  /\ first = NoEvent
  /\ exchanges = 0
  /\ launch = ""
  /\ urlPrinted = FALSE
  /\ port = 0

\* No terminal UI.
NotHeld == [m |-> New(FALSE), msg |-> [type |-> "", key |-> "", index |-> 0]]

UIFresh ==
  /\ model = New(FALSE)
  /\ held = NotHeld
  /\ screen = ""
  /\ delivered = 0

UIIdle ==
  /\ tui = "idle"
  /\ credential = "missing"
  /\ UIFresh

\* A Client built with the options ro and bo, before any call.
ClientFresh(ro, bo) ==
  /\ c = NewClient(ro, bo)
  /\ op = ""
  /\ pageSize = 0
  /\ ctxDone = FALSE
  /\ pc = "idle"
  /\ i = 0
  /\ backoff = c.backoff
  /\ pageToken = ""
  /\ all = <<>>
  /\ result = NoResult
  /\ statuses = <<>>
  /\ waits = <<>>
  /\ payload = EmptyBody
  /\ pages = <<>>
  /\ sent = 0
  /\ sentAtCancel = 0 - 1
  /\ update = <<>>
  /\ reader = 0
  /\ bodies = <<>>

ClientInit ==
  /\ \E ro \in RetryOpts, bo \in BackoffOpts : ClientFresh(ro, bo)
  /\ TokenIdle
  /\ AuthIdle
  /\ UIIdle

\* A default Client that is never called.
ClientIdle == ClientFresh(<<>>, <<>>)

(* ------------------------------ fragments ----------------------------- *)

\* A new doRequestWithRetry call starts (a new page fetch, or the only fetch).
StartRequest ==
  /\ i' = BeginRequest(c, i, backoff).i
  /\ backoff' = BeginRequest(c, i, backoff).backoff
  /\ pc' = "loop"

\* The history of the request the next attempt belongs to: empty when the
\* attempt is the first of a new request.
Cur(h) == IF i = 0 THEN <<>> ELSE h

\* doRequestWithRetry is in its loop body, about to call doRequest.
AtDoRequest == pc = "loop" /\ LoopCond(i, c.retries)

FailText ==
  IF op = "List" THEN "failed to list"
  ELSE IF op = "Patch" THEN "failed to patch" ELSE "failed to get"

\* get returned (nil, err): the operation returns the wrapped error.
Fail(err) ==
  /\ result' = ListFail(all, FailText, err)
  /\ pc' = "done"
  /\ UNCHANGED <<i, backoff, pageToken, all, pages, payload>>

\* The params of the request being made: buildListParams for a List, nil for a Get.
Params ==
  IF op = "List" THEN buildListParams(pageSize, pageToken)
  ELSE [pageSize |-> <<>>, pageToken |-> <<>>]

PageRecord(data) == [params |-> Params, items |-> data.items, next |-> data.next]

(* ------------------------------- actions ------------------------------ *)

\* ListCourses(ctx, pageSize) / GetCourse(ctx, id) is called.
Call ==
  /\ pc = "idle"
  /\ \E o \in Ops, ps \in PageSizes :
       /\ op' = o
       /\ pageSize' = IF o = "List" THEN ps ELSE 0
  /\ pageToken' = ""
  /\ all' = <<>>
  /\ StartRequest
  /\ UNCHANGED <<c, ctxDone, result, statuses, waits, payload, pages, sent, sentAtCancel>>

\* The caller cancels the context.
Cancel ==
  /\ pc \in {"idle", "loop", "wait"}
  /\ ~ctxDone
  /\ ctxDone' = TRUE
  /\ sentAtCancel' = IF pc = "wait" THEN sent ELSE sentAtCancel
  /\ UNCHANGED <<c, op, pageSize, pc, i, backoff, pageToken, all, result,
                 statuses, waits, payload, pages, sent>>

\* The loop condition fails before any return: doRequestWithRetry returns
\* (nil, lastErr) with lastErr nil, and get dereferences the nil response.
LoopExit ==
  /\ pc = "loop"
  /\ ~LoopCond(i, c.retries)
  /\ pc' = "panic"
  /\ UNCHANGED <<c, op, pageSize, ctxDone, i, backoff, pageToken, all, result,
                 statuses, waits, payload, pages, sent, sentAtCancel>>

\* doRequest with the context done: httpClient.Do fails, nothing is sent.
DoRequestCancelled ==
  /\ AtDoRequest
  /\ CtxAborts(ctxDone)
  /\ Fail(Err("ctx", 0, "request failed: context canceled", ""))
  /\ statuses' = Cur(statuses)
  /\ waits' = Cur(waits)
  /\ UNCHANGED <<c, op, pageSize, ctxDone, sent, sentAtCancel>>

\* doRequest fails in the transport (no response).
DoRequestTransportError ==
  /\ AtDoRequest
  /\ ~CtxAborts(ctxDone)
  /\ Fail(Err("transport", 0, "request failed", ""))
  /\ statuses' = Cur(statuses)
  /\ waits' = Cur(waits)
  /\ sent' = sent + 1
  /\ UNCHANGED <<c, op, pageSize, ctxDone, sentAtCancel>>

\* The server answers with an error status that the loop retries: the body is
\* closed and the request waits in backoff.
RespondRetry ==
  /\ AtDoRequest
  /\ ~CtxAborts(ctxDone)
  /\ \E st \in ErrStatuses, b \in ErrBodies :
       /\ AfterResponse(Response(st, b), i, c.retries).next = "wait"
       /\ statuses' = Append(Cur(statuses), st)
  /\ waits' = Cur(waits)
  /\ sent' = sent + 1
  /\ pc' = "wait"
  /\ UNCHANGED <<c, op, pageSize, ctxDone, i, backoff, pageToken, all, result,
                 payload, pages, sentAtCancel>>

\* The server answers with an error status that ends the request.
RespondError ==
  /\ AtDoRequest
  /\ ~CtxAborts(ctxDone)
  /\ \E st \in ErrStatuses, b \in ErrBodies :
       LET o == AfterResponse(Response(st, b), i, c.retries) IN
       /\ o.next = "err"
       /\ statuses' = Append(Cur(statuses), st)
       /\ payload' = b
       /\ result' = ListFail(all, FailText, o.err)
  /\ pc' = "done"
  /\ waits' = Cur(waits)
  /\ sent' = sent + 1
  /\ UNCHANGED <<c, op, pageSize, ctxDone, i, backoff, pageToken, all, pages, sentAtCancel>>

\* The server answers 200 and the body cannot be read to its end: get returns
\* io.ReadAll's error.
RespondUnreadable ==
  /\ AtDoRequest
  /\ ~CtxAborts(ctxDone)
  /\ AfterResponse(Response(200, HtmlBody), i, c.retries).next = "ok"
  /\ payload' = EmptyBody
  /\ result' = ListFail(all, FailText, Err("readbody", 0, "unexpected EOF", ""))
  /\ statuses' = Append(Cur(statuses), 200)
  /\ waits' = Cur(waits)
  /\ sent' = sent + 1
  /\ pc' = "done"
  /\ UNCHANGED <<c, op, pageSize, ctxDone, i, backoff, pageToken, all, pages, sentAtCancel>>

\* The server answers 200 with a body that json.Unmarshal rejects.
RespondUndecodable ==
  /\ AtDoRequest
  /\ ~CtxAborts(ctxDone)
  /\ \E b \in OkBodies(Len(pages)) :
       /\ AfterResponse(Response(200, b), i, c.retries).next = "ok"
       /\ ~ReadAll(b, FALSE).data.json
       /\ payload' = b
       /\ result' = ListFail(all, "failed to parse", Err("decode", 0, b.raw, ""))
  /\ statuses' = Append(Cur(statuses), 200)
  /\ waits' = Cur(waits)
  /\ sent' = sent + 1
  /\ pc' = "done"
  /\ UNCHANGED <<c, op, pageSize, ctxDone, i, backoff, pageToken, all, pages, sentAtCancel>>

\* The server answers 200 with the last page of a List, or with the entity of
\* a Get: the operation returns.
RespondLast ==
  /\ AtDoRequest
  /\ ~CtxAborts(ctxDone)
  /\ \E b \in OkBodies(Len(pages)) :
       LET data == ReadAll(b, FALSE).data IN
       /\ AfterResponse(Response(200, b), i, c.retries).next = "ok"
       /\ data.json
       /\ op = "List" => data.next = ""
       /\ payload' = b
       /\ pages' = Append(pages, PageRecord(data))
       /\ IF op = "List"
          THEN /\ all' = AppendPage(all, data.items)
               /\ result' = ListOk(all', pageToken)
          ELSE /\ all' = all
               /\ result' = [err |-> NoErr, items |-> data.items, token |-> ""]
  /\ statuses' = Append(Cur(statuses), 200)
  /\ waits' = Cur(waits)
  /\ sent' = sent + 1
  /\ pc' = "done"
  /\ UNCHANGED <<c, op, pageSize, ctxDone, i, backoff, pageToken, sentAtCancel>>

\* The server answers 200 with a page that carries a cursor: List appends the
\* page and starts the request for the next one.
RespondPage ==
  /\ AtDoRequest
  /\ ~CtxAborts(ctxDone)
  /\ op = "List"
  /\ \E b \in OkBodies(Len(pages)) :
       LET data == ReadAll(b, FALSE).data IN
       /\ AfterResponse(Response(200, b), i, c.retries).next = "ok"
       /\ data.json
       /\ data.next # ""
       /\ payload' = b
       /\ pages' = Append(pages, PageRecord(data))
       /\ all' = AppendPage(all, data.items)
       /\ pageToken' = data.next
  /\ statuses' = Append(Cur(statuses), 200)
  /\ waits' = Cur(waits)
  /\ sent' = sent + 1
  /\ StartRequest
  /\ UNCHANGED <<c, op, pageSize, ctxDone, result, sentAtCancel>>

\* select: case <-ctx.Done(): return nil, ctx.Err()
SelectCtxDone ==
  /\ pc = "wait"
  /\ ctxDone
  /\ Fail(Err("ctx", 0, "context canceled", ""))
  /\ UNCHANGED <<c, op, pageSize, ctxDone, statuses, waits, sent, sentAtCancel>>

\* select: case <-time.After(backoff): double the backoff, cap it, continue.
\* With the context done the timer case can still be the one chosen when it is
\* ready at once (a backoff of zero): select picks among ready cases at random.
SelectTimer ==
  /\ pc = "wait"
  /\ ~ctxDone \/ backoff <= 0
  /\ waits' = Append(waits, backoff)
  /\ backoff' = NextBackoff(backoff)
  /\ i' = i + 1
  /\ pc' = "loop"
  /\ UNCHANGED <<c, op, pageSize, ctxDone, pageToken, all, result, statuses,
                 payload, pages, sent, sentAtCancel>>

ClientNext ==
  \/ Call /\ UNCHANGED <<tokenVars, authVars, uiVars, patchVars>>
  \/ Cancel /\ UNCHANGED <<tokenVars, authVars, uiVars, patchVars>>
  \/ LoopExit /\ UNCHANGED <<tokenVars, authVars, uiVars, patchVars>>
  \/ DoRequestCancelled /\ UNCHANGED <<tokenVars, authVars, uiVars, patchVars>>
  \/ DoRequestTransportError /\ UNCHANGED <<tokenVars, authVars, uiVars, patchVars>>
  \/ RespondRetry /\ UNCHANGED <<tokenVars, authVars, uiVars, patchVars>>
  \/ RespondError /\ UNCHANGED <<tokenVars, authVars, uiVars, patchVars>>
  \/ RespondUnreadable /\ UNCHANGED <<tokenVars, authVars, uiVars, patchVars>>
  \/ RespondUndecodable /\ UNCHANGED <<tokenVars, authVars, uiVars, patchVars>>
  \/ RespondLast /\ UNCHANGED <<tokenVars, authVars, uiVars, patchVars>>
  \/ RespondPage /\ UNCHANGED <<tokenVars, authVars, uiVars, patchVars>>
  \/ SelectCtxDone /\ UNCHANGED <<tokenVars, authVars, uiVars, patchVars>>
  \/ SelectTimer /\ UNCHANGED <<tokenVars, authVars, uiVars, patchVars>>

SpecClient == ClientInit /\ [][ClientNext]_allVars

(* ------------------------------ histories ----------------------------- *)

Last(h) == h[Len(h)]

RECURSIVE Concat(_)
Concat(ps) == IF ps = <<>> THEN <<>> ELSE ps[1].items \o Concat(Tail(ps))

Retried(st) == st = 429 \/ st >= 500

\* The operation ended for a reason that is no response of the server.
EndedWithoutResponse == pc = "done" /\ result.err.kind \in {"ctx", "transport"}

(* ------------------------------- claims ------------------------------- *)

AllServerErrors == \A k \in 1..Len(statuses) : statuses[k] >= 500

\* C1: with retries = r >= 0 and a server that answers every attempt of one
\* request with a status >= 500, the request makes exactly r+1 attempts, never
\* more, and then returns an error: at most r+1 responses are ever received,
\* the (r+1)-th ends the request with an error, and a request that ended on a
\* response ended on the (r+1)-th.
C1_ExactlyRetriesPlusOneAttempts ==
  (c.retries >= 0 /\ statuses # <<>> /\ AllServerErrors) =>
    /\ Len(statuses) <= c.retries + 1
    /\ Len(statuses) = c.retries + 1 => (pc = "done" /\ result.err.kind # "nil")
    /\ (pc = "done" /\ ~EndedWithoutResponse) => Len(statuses) = c.retries + 1
    /\ pc # "panic"

C1_Witness ==
  /\ pc = "done"
  /\ c.retries = defaultRetry
  /\ statuses = <<500, 503, 500, 503>>
  /\ Len(waits) = defaultRetry
  /\ result.err.kind # "nil"

\* The request ended on the response to its last allowed attempt, which was
\* a retryable status.
BudgetExhausted ==
  /\ pc = "done"
  /\ ~EndedWithoutResponse
  /\ statuses # <<>>
  /\ Retried(Last(statuses))

\* C2: when the retry budget of a request is exhausted, the returned error is
\* classified from the last response: IsRateLimited with status 429 after a
\* final 429, an API error carrying the 5xx status after a final status >= 500.
C2_ExhaustedErrorIsClassified ==
  BudgetExhausted =>
    /\ Last(statuses) = 429 => (IsRateLimited(result.err) /\ result.err.code = 429)
    /\ Last(statuses) >= 500 =>
         (result.err.kind = "api" /\ result.err.code = Last(statuses))

Only429Before(k) == \A j \in 1..k : statuses[j] = 429

\* C3: k responses 429 (k within the retry budget) followed by one 200: the
\* 429s do not end the request, the request succeeds on the 200 after exactly
\* k+1 attempts (k completed waits), and the operation returns the payload of
\* the 200: a Get returns it, a List has it as its last page.
C3_SuccessAfterRateLimits ==
  /\ (c.retries >= 0 /\ statuses # <<>> /\ Only429Before(Len(statuses))
        /\ Len(statuses) <= c.retries /\ pc = "done")
       => EndedWithoutResponse
  /\ (statuses # <<>> /\ Last(statuses) = 200 /\ Only429Before(Len(statuses) - 1)) =>
       /\ Len(statuses) - 1 <= c.retries
       /\ Len(waits) = Len(statuses) - 1
       /\ payload.json =>
            /\ pages # <<>>
            /\ Last(pages).items = payload.items
            /\ pc = "done" =>
                 /\ result.err = NoErr
                 /\ op = "Get" => result.items = payload.items
                 /\ op = "List" => result.items = Concat(pages)

C3_Witness ==
  /\ pc = "done"
  /\ op = "List"
  /\ statuses = <<429, 429, 429, 200>>
  /\ payload.items = <<"a", "b">>
  /\ result.items = <<"a", "b">>
  /\ result.err = NoErr

\* C4: within one request, for every configured initial backoff, the waits
\* before successive retries are non-decreasing and each is at most maxDelay:
\* the first is the initial delay and each next one is the double, capped.
C4_WaitsNonDecreasingAndCapped ==
  \A k \in 1..Len(waits) :
    /\ waits[k] <= maxDelay
    /\ k = 1 => waits[k] = c.backoff
    /\ k > 1 => /\ waits[k - 1] <= waits[k]
                /\ waits[k] = (IF 2 * waits[k - 1] > maxDelay THEN maxDelay ELSE 2 * waits[k - 1])

Other4xx(st) == st >= 400 /\ st < 500 /\ st # 429

\* C5: a response with a 4xx status other than 429 ends the request at once:
\* no backoff wait follows it and the request is over; every wait that was
\* made followed a 429 or a status >= 500.
C5_Only429And5xxRetried ==
  /\ Len(waits) <= Len(statuses)
  /\ \A k \in 1..Len(waits) : Retried(statuses[k])
  /\ (statuses # <<>> /\ Other4xx(Last(statuses))) =>
       /\ pc = "done"
       /\ result.err.kind # "nil"
       /\ Len(waits) = Len(statuses) - 1

C5_Witness ==
  /\ pc = "done"
  /\ statuses = <<429, 500, 400>>
  /\ Len(waits) = 2
  /\ sent = 3

\* C6: for every response body, a 404 yields an error with IsNotFound true and
\* a 403 one with IsForbidden true; any other 4xx yields a generic API error
\* carrying the status and the message parsed from the body, or the raw text
\* if the body is unparsable.
C6_TerminalErrorsClassified ==
  (pc = "done" /\ ~EndedWithoutResponse /\ statuses # <<>>) =>
    /\ Last(statuses) = 404 => IsNotFound(result.err)
    /\ Last(statuses) = 403 => IsForbidden(result.err)
    /\ (Other4xx(Last(statuses)) /\ Last(statuses) \notin {403, 404}) =>
         /\ result.err.code = Last(statuses)
         /\ IF payload.json
            THEN /\ result.err.kind = "api"
                 /\ result.err.message =
                      (IF payload.message # "" THEN payload.message ELSE payload.raw)
            ELSE /\ result.err.kind = "plain"
                 /\ result.err.message = payload.raw

\* C7: if the context is cancelled while a request waits in backoff, the
\* operation ends with the cancellation error and no HTTP attempt is made
\* after the cancellation.
C7_NoAttemptAfterCancelInBackoff ==
  sentAtCancel >= 0 =>
    /\ sent = sentAtCancel
    /\ pc \in {"wait", "loop", "done"}
    /\ pc = "done" => IsCancelled(result.err)

C7_Witness ==
  /\ pc = "done"
  /\ sentAtCancel = 2
  /\ sent = 2
  /\ result.err.kind = "ctx"
  /\ result.err.message = "context canceled"
  /\ result.items = <<>>

\* C8: after a successful List, the returned items are the concatenation of
\* the items of every page in the order the pages were obtained, each page
\* asked for with the cursor of the response before it and the first one with
\* no cursor, the last page being the one that carried no cursor.
C8_ListIsConcatenationOfPages ==
  (pc = "done" /\ op = "List" /\ result.err = NoErr) =>
    /\ pages # <<>>
    /\ result.items = Concat(pages)
    /\ pages[1].params.pageToken = <<>>
    /\ \A k \in 2..Len(pages) : pages[k].params.pageToken = <<pages[k - 1].next>>
    /\ \A k \in 1..Len(pages) : (pages[k].next = "") <=> (k = Len(pages))
    /\ \A k \in 1..Len(pages) :
         pages[k].params.pageSize = (IF pageSize > 0 THEN <<pageSize>> ELSE <<>>)

C8_Witness ==
  /\ pc = "done"
  /\ op = "List"
  /\ result.err = NoErr
  /\ Len(pages) = MaxPages
  /\ pages[1].items = <<"a", "b">>
  /\ pages[2].items = <<"a">>
  /\ pages[2].params.pageToken = <<"t2">>
  /\ result.items = <<"a", "b", "a">>

\* C9: if the fetch or the decoding of any page of a List fails, the List
\* returns an error and zero items (and no cursor): the items of the pages
\* fetched before are not returned.
C9_FailedListReturnsNothing ==
  (pc = "done" /\ result.err # NoErr) =>
    /\ result.items = <<>>
    /\ result.token = ""
    /\ (statuses # <<>> /\ Last(statuses) = 200) => result.err.kind \in {"decode", "readbody"}

C9_Witness ==
  /\ pc = "done"
  /\ op = "List"
  /\ pages # <<>>
  /\ all = <<"a", "b">>
  /\ result.err.kind = "api"
  /\ Last(statuses) = 404
  /\ result.items = <<>>

\* C10: each page fetch inside a List starts with the full retry budget and
\* the initial backoff delay, whatever earlier pages consumed: the fetch that
\* follows a page starts at attempt 0 with the client's backoff, the first wait
\* of every request is the client's backoff, the loop index counts the waits of
\* this request only, and a page whose (retries+1)-th attempt is answered by a
\* retryable status makes the whole List fail.
C10_FreshBudgetPerPage ==
  /\ (pc = "loop" /\ statuses # <<>> /\ Last(statuses) = 200) =>
       (i = 0 /\ backoff = c.backoff)
  /\ waits # <<>> => waits[1] = c.backoff
  /\ (pc = "wait" \/ (pc = "loop" /\ i > 0)) => Len(waits) = i
  /\ (c.retries >= 0 /\ statuses # <<>> /\ Retried(Last(statuses))
        /\ Len(statuses) = c.retries + 1) =>
       (pc = "done" /\ result.err # NoErr /\ result.items = <<>>)

C10_Witness ==
  /\ pc = "done"
  /\ op = "List"
  /\ c = [retries |-> 1, backoff |-> 1]
  /\ Len(pages) = 1
  /\ sent = 4
  /\ statuses = <<429, 500>>
  /\ waits = <<1>>
  /\ result.err # NoErr

\* C34: for every configured retry count, negative ones included,
\* doRequestWithRetry returns a response or an error, so get and patch never
\* dereference a nil response.
C34_ResponseOrError ==
  pc # "panic"

(* -------------------------- the partial update ------------------------ *)

\* The bodies json.Marshal(update) produces, as the sequences of the fields
\* they carry: an update with one field set, and one with two.
Updates == {<<"draftGrade">>, <<"assignedGrade", "draftGrade">>}

\* http.NewRequestWithContext(ctx, method, url, body) for a *strings.Reader
\* that has been read up to off: the request carries what is left of it
\* (http.NoBody when nothing is).
NewRequest(data, off) == SubSeq(data, off + 1, Len(data))

\* PatchStudentSubmission(ctx, ..., update) is called: patch wraps the body
\* in one strings.Reader and hands it to doRequestWithRetry.
PatchCall ==
  /\ pc = "idle"
  /\ op' = "Patch"
  /\ pageSize' = 0
  /\ pageToken' = ""
  /\ all' = <<>>
  /\ StartRequest
  /\ update' \in Updates
  /\ reader' = 0
  /\ bodies' = <<>>
  /\ UNCHANGED <<c, ctxDone, result, statuses, waits, payload, pages, sent,
                 sentAtCancel>>

\* doRequest builds the attempt's request from the reader and the transport
\* sends it: the transport has read some or all of what the request carries
\* by the time the attempt ends.
Attempt ==
  /\ bodies' = Append(bodies, NewRequest(update, reader))
  /\ reader' \in reader..Len(update)
  /\ update' = update

PatchNext ==
  \/ PatchCall /\ UNCHANGED <<tokenVars, authVars, uiVars>>
  \/ Cancel /\ UNCHANGED <<tokenVars, authVars, uiVars, patchVars>>
  \/ LoopExit /\ UNCHANGED <<tokenVars, authVars, uiVars, patchVars>>
  \/ DoRequestCancelled /\ UNCHANGED <<tokenVars, authVars, uiVars, patchVars>>
  \/ DoRequestTransportError /\ Attempt /\ UNCHANGED <<tokenVars, authVars, uiVars>>
  \/ RespondRetry /\ Attempt /\ UNCHANGED <<tokenVars, authVars, uiVars>>
  \/ RespondError /\ Attempt /\ UNCHANGED <<tokenVars, authVars, uiVars>>
  \/ RespondUnreadable /\ Attempt /\ UNCHANGED <<tokenVars, authVars, uiVars>>
  \/ RespondUndecodable /\ Attempt /\ UNCHANGED <<tokenVars, authVars, uiVars>>
  \/ RespondLast /\ Attempt /\ UNCHANGED <<tokenVars, authVars, uiVars>>
  \/ SelectCtxDone /\ UNCHANGED <<tokenVars, authVars, uiVars, patchVars>>
  \/ SelectTimer /\ UNCHANGED <<tokenVars, authVars, uiVars, patchVars>>

SpecPatch == ClientInit /\ [][PatchNext]_allVars

\* C35: every attempt of a retried Patch sends the same complete body as the
\* first attempt: no retry sends an empty or truncated update.
C35_RetrySendsWholeBody ==
  \A n \in 1..Len(bodies) : bodies[n] = update

(* ---------------------- a listing that goes on ------------------------ *)
\* ListCourses / ListCourseWork page by page: each c.get is taken with the
\* result it returns, and the histories of the attempts are not kept, so that
\* a listing of any number of pages is a finite state graph.

\* The server sends items until the listing holds 2 * MaxPages of them, and
\* empty pages from then on.

\* c.get returns an error (the one of a done context, or one of the
\* transport or of a response): the listing returns it wrapped.
GetFails ==
  /\ AtDoRequest
  /\ op = "List"
  /\ \E err \in
         IF CtxAborts(ctxDone)
           THEN {Err("ctx", 0, "request failed: context canceled", "")}
           ELSE {Err("transport", 0, "request failed", ""),
                 parseError(Response(404, EmptyBody), FALSE),
                 parseError(Response(500, HtmlBody), TRUE)} :
       Fail(err)
  /\ UNCHANGED <<c, op, pageSize, ctxDone, statuses, waits, sent, sentAtCancel>>

\* c.get returns a body that json.Unmarshal rejects.
GetUndecodable ==
  /\ AtDoRequest
  /\ ~CtxAborts(ctxDone)
  /\ op = "List"
  /\ ~ReadAll(HtmlBody, FALSE).data.json
  /\ result' = ListFail(all, "failed to parse", Err("decode", 0, HtmlBody.raw, ""))
  /\ pc' = "done"
  /\ UNCHANGED <<c, op, pageSize, ctxDone, i, backoff, pageToken, all, statuses,
                 waits, payload, pages, sent, sentAtCancel>>

\* Faulty variant of GetLast: no break, the loop goes round with the empty
\* cursor.
GetLastGoesOn ==
  /\ AtDoRequest
  /\ ~CtxAborts(ctxDone)
  /\ op = "List"
  /\ \E it \in PageItems :
       LET data == ReadAll(PageBody(it, ""), FALSE).data IN
       /\ Len(AppendPage(all, data.items)) <= 2 * MaxPages
       /\ data.next = ""
       /\ all' = AppendPage(all, data.items)
       /\ pageToken' = data.next
  /\ StartRequest
  /\ UNCHANGED <<c, op, pageSize, ctxDone, result, statuses, waits, payload,
                 pages, sent, sentAtCancel>>

\* c.get returns a page without cursor: the loop breaks and the listing
\* returns.
GetLast ==
  /\ AtDoRequest
  /\ ~CtxAborts(ctxDone)
  /\ op = "List"
  /\ \E it \in PageItems :
       LET data == ReadAll(PageBody(it, ""), FALSE).data IN
       /\ Len(AppendPage(all, data.items)) <= 2 * MaxPages
       /\ data.next = ""
       /\ all' = AppendPage(all, data.items)
       /\ result' = ListOk(all', pageToken)
  /\ pc' = "done"
  /\ UNCHANGED <<c, op, pageSize, ctxDone, i, backoff, pageToken, statuses,
                 waits, payload, pages, sent, sentAtCancel>>

\* c.get returns a page with a cursor, a new one or the one just used: the
\* loop goes round with it.
GetPage ==
  /\ AtDoRequest
  /\ ~CtxAborts(ctxDone)
  /\ op = "List"
  /\ \E it \in PageItems, t \in Tokens :
       LET data == ReadAll(PageBody(it, t), FALSE).data IN
       /\ Len(AppendPage(all, data.items)) <= 2 * MaxPages
       /\ data.next # ""
       /\ all' = AppendPage(all, data.items)
       /\ pageToken' = data.next
  /\ StartRequest
  /\ UNCHANGED <<c, op, pageSize, ctxDone, result, statuses, waits, payload,
                 pages, sent, sentAtCancel>>

\* ListCourses(ctx, pageSize) is called.
ListCall ==
  /\ pc = "idle"
  /\ op' = "List"
  /\ pageSize' \in PageSizes
  /\ pageToken' = ""
  /\ all' = <<>>
  /\ StartRequest
  /\ UNCHANGED <<c, ctxDone, result, statuses, waits, payload, pages, sent,
                 sentAtCancel>>

ListNext ==
  \/ ListCall /\ UNCHANGED <<tokenVars, authVars, uiVars, patchVars>>
  \/ Cancel /\ UNCHANGED <<tokenVars, authVars, uiVars, patchVars>>
  \/ LoopExit /\ UNCHANGED <<tokenVars, authVars, uiVars, patchVars>>
  \/ GetFails /\ UNCHANGED <<tokenVars, authVars, uiVars, patchVars>>
  \/ GetUndecodable /\ UNCHANGED <<tokenVars, authVars, uiVars, patchVars>>
  \/ GetLast /\ UNCHANGED <<tokenVars, authVars, uiVars, patchVars>>
  \/ GetPage /\ UNCHANGED <<tokenVars, authVars, uiVars, patchVars>>

\* Every page request gets its result: a step of the listing that stays
\* possible is taken. The caller need never call, nor cancel.
SpecList ==
  /\ ClientInit
  /\ [][ListNext]_allVars
  /\ WF_allVars((LoopExit \/ GetFails \/ GetUndecodable \/ GetLast \/ GetPage)
                  /\ UNCHANGED <<tokenVars, authVars, uiVars, patchVars>>)

\* C37 as stated: a List returns after finitely many page requests, whatever
\* the server answers, a server that keeps returning a cursor included.
C37_ListTerminates ==
  (op = "List" /\ pc = "loop") ~> (pc \in {"done", "panic"})

\* C37, amended: a List returns after finitely many page requests provided
\* the server does not answer with a cursor for ever, that is, a listing
\* that keeps asking for pages is at some time given a page without one.
C37_ListTerminatesOnceCursorsEnd ==
  SF_allVars(GetLast /\ UNCHANGED <<tokenVars, authVars, uiVars, patchVars>>)
    => ((op = "List" /\ pc = "loop") ~> (pc \in {"done", "panic"}))

\* A listing of several pages has returned them all.
C37_Witness ==
  /\ pc = "done"
  /\ op = "List"
  /\ pageToken # ""
  /\ result = ListOk(<<"a", "b", "a">>, pageToken)

(* ------------------------ the credential manager ---------------------- *)

TokenInit ==
  /\ ClientIdle
  /\ AuthIdle
  /\ UIIdle
  /\ tokenFile \in {NoFile} \cup {File(Marshal(t)) : t \in StoredTokens}
  /\ now = 0
  /\ tpc = "idle"
  /\ token = NoToken
  /\ newToken = NoToken
  /\ got = NoneGot
  /\ refreshes = 0
  /\ writes = 0
  /\ file0 = tokenFile
  /\ checkedAt = 0
  /\ readerSaw = NoneSeen

\* GetValidToken returns.
Return(err, t) ==
  /\ got' = [err |-> err, token |-> t]
  /\ tpc' = "done"

\* Time passes.
Tick ==
  /\ now < MaxTime
  /\ now' = now + 1
  /\ UNCHANGED <<tokenFile, tpc, token, newToken, got, refreshes, writes,
                 file0, checkedAt, readerSaw>>

\* A command calls GetValidToken: it loads the token file and tests the expiry.
GetValidToken ==
  /\ tpc \in {"idle", "done"}
  /\ LET loaded == TokenFromFile(tokenFile) IN
       /\ token' = loaded.token
       /\ IF loaded.err # ""
            THEN Return(ErrNoToken, NoToken)
            ELSE IF Unexpired(loaded.token, now)
              THEN Return("", loaded.token)
              ELSE IF loaded.token.RefreshToken # ""
                THEN tpc' = "refresh" /\ got' = NoneGot
                ELSE Return(ErrExpired, NoToken)
  /\ newToken' = NoToken
  /\ refreshes' = 0
  /\ writes' = 0
  /\ file0' = tokenFile
  /\ checkedAt' = now
  /\ UNCHANGED <<tokenFile, now, readerSaw>>

\* RefreshToken: the token endpoint answers the refresh request with a token.
RefreshOk ==
  /\ tpc = "refresh"
  /\ \E resp \in TokenResponses : newToken' = Refreshed(token, resp, now)
  /\ refreshes' = refreshes + 1
  /\ tpc' = "save"
  /\ UNCHANGED <<tokenFile, now, token, got, writes, file0, checkedAt, readerSaw>>

\* RefreshToken: the refresh request fails (network, or the grant is refused).
RefreshError ==
  /\ tpc = "refresh"
  /\ refreshes' = refreshes + 1
  /\ IF OnRefreshError = "done"
       THEN Return(ErrExpired, NoToken)
       ELSE tpc' = OnRefreshError /\ got' = got
  /\ UNCHANGED <<tokenFile, now, token, newToken, writes, file0, checkedAt,
                 readerSaw>>

\* TokenToFile: os.WriteFile opens the file with O_CREATE|O_TRUNC, which
\* empties it.
SaveOpen ==
  /\ tpc = "save"
  /\ tokenFile' = File(<<>>)
  /\ writes' = writes + 1
  /\ tpc' = "write"
  /\ UNCHANGED <<now, token, newToken, got, refreshes, file0, checkedAt,
                 readerSaw>>

\* TokenToFile: the directory cannot be made or the file cannot be opened.
SaveOpenError ==
  /\ tpc = "save"
  /\ Return(ErrSave, NoToken)
  /\ UNCHANGED <<tokenFile, now, token, newToken, refreshes, writes, file0,
                 checkedAt, readerSaw>>

\* TokenToFile: os.WriteFile writes the document and closes the file.
SaveWrite ==
  /\ tpc = "write"
  /\ tokenFile' = File(Marshal(newToken))
  /\ Return("", newToken)
  /\ UNCHANGED <<now, token, newToken, refreshes, writes, file0, checkedAt,
                 readerSaw>>

\* TokenToFile: the write fails part way (the disk is full, say).
SaveWriteError ==
  /\ tpc = "write"
  /\ \E k \in 0..(Len(Marshal(newToken)) - 1) :
       tokenFile' = File(SubSeq(Marshal(newToken), 1, k))
  /\ Return(ErrSave, NoToken)
  /\ UNCHANGED <<now, token, newToken, refreshes, writes, file0, checkedAt,
                 readerSaw>>

\* Another process (the TUI, another command) loads the token file.
ConcurrentRead ==
  /\ readerSaw' = [err |-> TokenFromFile(tokenFile).err,
                   token |-> TokenFromFile(tokenFile).token,
                   during |-> tpc]
  /\ UNCHANGED <<tokenFile, now, tpc, token, newToken, got, refreshes, writes,
                 file0, checkedAt>>

TokenNext ==
  \/ Tick /\ UNCHANGED <<vars, authVars, uiVars, patchVars>>
  \/ GetValidToken /\ UNCHANGED <<vars, authVars, uiVars, patchVars>>
  \/ RefreshOk /\ UNCHANGED <<vars, authVars, uiVars, patchVars>>
  \/ RefreshError /\ UNCHANGED <<vars, authVars, uiVars, patchVars>>
  \/ SaveOpen /\ UNCHANGED <<vars, authVars, uiVars, patchVars>>
  \/ SaveOpenError /\ UNCHANGED <<vars, authVars, uiVars, patchVars>>
  \/ SaveWrite /\ UNCHANGED <<vars, authVars, uiVars, patchVars>>
  \/ SaveWriteError /\ UNCHANGED <<vars, authVars, uiVars, patchVars>>
  \/ ConcurrentRead /\ UNCHANGED <<vars, authVars, uiVars, patchVars>>

SpecToken == TokenInit /\ [][TokenNext]_allVars

\* The credential the call found in the token file.
Stored == TokenFromFile(file0)

\* The call refreshed the credential: RefreshToken returned newToken.
DidRefresh == tpc = "done" /\ newToken # NoToken

FoundUnexpired ==
  /\ tpc = "done"
  /\ Stored.err = ""
  /\ Stored.token.Expiry > checkedAt

\* C12: GetValidToken on a stored credential whose expiry is in the future
\* returns that credential unchanged, sends no refresh request and does not
\* write the token file.
C12_UnexpiredReturnedAsIs ==
  FoundUnexpired =>
    /\ got = [err |-> "", token |-> Stored.token]
    /\ refreshes = 0
    /\ writes = 0
    /\ tokenFile = file0

C12_Witness ==
  /\ FoundUnexpired
  /\ got.err = ""
  /\ got.token.RefreshToken # ""
  /\ now > checkedAt

\* The call found a credential that was expired at its expiry test, and it
\* either had no refresh token or its refresh failed.
FoundExpiredUnrefreshable ==
  /\ tpc = "done"
  /\ Stored.err = ""
  /\ Stored.token.Expiry <= checkedAt
  /\ (Stored.token.RefreshToken = "" \/ newToken = NoToken)

\* C13: GetValidToken fails with the expired, log-in-again error whenever the
\* stored credential is expired and has no refresh token or its refresh
\* fails; no call makes more than one refresh attempt, and the failing call
\* does nothing else: it writes no file, returns no credential and leaves
\* BrowserFlow uncalled.
C13_ExpiredUnrefreshableFails ==
  /\ refreshes <= 1
  /\ apc = "idle"
  /\ (Stored.token.RefreshToken = "" => refreshes = 0)
  /\ FoundExpiredUnrefreshable =>
       /\ got = [err |-> "token expired, please run 'gc-cli auth login'",
                 token |-> NoToken]
       /\ writes = 0
       /\ tokenFile = file0

C13_Witness ==
  /\ FoundExpiredUnrefreshable
  /\ refreshes = 1
  /\ got.err = ErrExpired

\* What the token file holds, when it holds a whole credential.
Persisted == TokenFromFile(tokenFile)

C15_ReaderSeesWholeCredential ==
  readerSaw.during \in {"save", "write"} =>
    /\ readerSaw.err = ""
    /\ readerSaw.token \in {token, newToken}

\* C36: whenever GetValidToken returns an error (unreadable token, no
\* refresh token, refresh failure, failure to save), the token file is
\* exactly as it was when the call started.
C36_ErrorLeavesFileUntouched ==
  (tpc = "done" /\ got.err # "") => tokenFile = file0

(* ------------------------ the authorization flow ---------------------- *)

\* BrowserFlow has been called; its ctx is not cancelled yet.
AuthInit ==
  /\ ClientIdle
  /\ TokenIdle
  /\ UIIdle
  /\ apc = "start"
  /\ authCtxDone = FALSE
  /\ listener = "none"
  /\ serving = FALSE
  /\ codeChan = <<>>
  /\ errChan = <<>>
  /\ sendq = <<>>
  /\ chosen = ""
  /\ recv = ""
  /\ flow = NoFlow
  /\ arrivals = 0
  /\ first = NoEvent
  /\ exchanges = 0
  /\ launch = ""
  /\ urlPrinted = FALSE
  /\ port = 0

\* The main goroutine is blocked in the select.
Blocked == apc = "select"

Buffer(ch) == IF ch = "code" THEN codeChan ELSE errChan

\* The cases of the select that can proceed.
Ready ==
  {k \in SelectCases :
     \/ k = "code" /\ codeChan # <<>>
     \/ k = "err" /\ errChan # <<>>
     \/ k = "ctx" /\ authCtxDone}

\* The select takes case k with value v and goes on to server.Shutdown.
Take(k, v) ==
  /\ chosen' = k
  /\ recv' = v
  /\ apc' = "shutdown"

\* An event of the wait happens: the first one is remembered.
Note(k, v) ==
  first' = IF first.kind = "" /\ chosen = ""
             THEN [kind |-> k, val |-> v, at |-> apc]
             ELSE first

\* ch <- val in a goroutine of the server: handed to the select when the
\* main goroutine is blocked in it, buffered when the channel has room,
\* blocked otherwise.
Send(ch, val) ==
  IF Blocked /\ ch \in SelectCases
    THEN Take(ch, val) /\ UNCHANGED <<codeChan, errChan, sendq>>
    ELSE /\ UNCHANGED <<chosen, recv, apc>>
         /\ IF Buffer(ch) = <<>>
              THEN /\ codeChan' = IF ch = "code" THEN <<val>> ELSE codeChan
                   /\ errChan' = IF ch = "err" THEN <<val>> ELSE errChan
                   /\ sendq' = sendq
              ELSE /\ sendq' = Append(sendq, [ch |-> ch, val |-> val])
                   /\ UNCHANGED <<codeChan, errChan>>

\* BrowserFlow up to the call of startCallbackServer: the state, the URL, the
\* browser (best effort).
BrowserFlow ==
  /\ apc = "start"
  /\ \E outcome \in Launches :
       /\ launch' = outcome
       /\ urlPrinted' = (openBrowser(outcome) # "")
  /\ apc' = "listen"
  /\ UNCHANGED <<authCtxDone, listener, serving, codeChan, errChan, sendq,
                 chosen, recv, flow, arrivals, first, exchanges, port>>

\* startCallbackServer binds the listener and starts the server goroutine.
Listen ==
  /\ apc = "listen"
  /\ listener' = "open"
  /\ port' \in Ports
  /\ serving' = TRUE
  /\ apc' = "serving"
  /\ UNCHANGED <<authCtxDone, codeChan, errChan, sendq, chosen, recv, flow,
                 arrivals, first, exchanges,
                 launch, urlPrinted>>

\* net.Listen fails: startCallbackServer returns, BrowserFlow returns.
ListenError ==
  /\ apc = "listen"
  /\ flow' = [err |-> "callback failed",
              cause |-> "failed to find available port", token |-> ""]
  /\ apc' = "returned"
  /\ UNCHANGED <<authCtxDone, listener, serving, codeChan, errChan, sendq,
                 chosen, recv, arrivals, first, exchanges,
                 launch, urlPrinted, port>>

\* The main goroutine reaches the select: it blocks when no case can proceed
\* and takes one of the cases that can, any of them, otherwise.
EnterSelect ==
  /\ apc = "serving"
  /\ IF Ready = {}
       THEN /\ apc' = "select"
            /\ UNCHANGED <<chosen, recv, codeChan, errChan>>
       ELSE \E k \in Ready :
              /\ Take(k, IF k = "ctx" THEN "context canceled" ELSE Head(Buffer(k)))
              /\ codeChan' = IF k = "code" THEN Tail(codeChan) ELSE codeChan
              /\ errChan' = IF k = "err" THEN Tail(errChan) ELSE errChan
  /\ UNCHANGED <<authCtxDone, listener, serving, sendq, flow, arrivals, first,
                 exchanges,
                 launch, urlPrinted, port>>

\* A request reaches /callback and its handler runs up to its channel send.
Callback ==
  /\ serving
  /\ listener = "open"
  /\ arrivals < MaxCallbacks
  /\ arrivals' = arrivals + 1
  /\ \E query \in Queries :
       /\ Send(Handle(query).ch, Handle(query).val)
       /\ Note(Handle(query).ch, Handle(query).val)
  /\ UNCHANGED <<authCtxDone, listener, serving, flow, exchanges,
                 launch, urlPrinted, port>>

\* server.Serve returns an error that is not ErrServerClosed.
ServeError ==
  /\ serving
  /\ listener = "open"
  /\ serving' = FALSE
  /\ Send("err", "serve error")
  /\ Note("err", "serve error")
  /\ UNCHANGED <<authCtxDone, listener, flow, arrivals, exchanges,
                 launch, urlPrinted, port>>

\* The caller cancels ctx: a main goroutine blocked in the select takes the
\* ctx.Done() case.
AuthCancel ==
  /\ ~authCtxDone
  /\ apc # "returned"
  /\ authCtxDone' = TRUE
  /\ IF Blocked /\ "ctx" \in SelectCases
       THEN Take("ctx", "context canceled")
       ELSE UNCHANGED <<chosen, recv, apc>>
  /\ Note("ctx", "context canceled")
  /\ UNCHANGED <<listener, serving, codeChan, errChan, sendq, flow, arrivals,
                 exchanges,
                 launch, urlPrinted, port>>

\* A blocked send goes on once its channel has room.
HandlerProceed ==
  /\ \E n \in 1..Len(sendq) :
       /\ Buffer(sendq[n].ch) = <<>>
       /\ \A m \in 1..(n - 1) : sendq[m].ch # sendq[n].ch
       /\ codeChan' = IF sendq[n].ch = "code" THEN <<sendq[n].val>> ELSE codeChan
       /\ errChan' = IF sendq[n].ch = "err" THEN <<sendq[n].val>> ELSE errChan
       /\ sendq' = SubSeq(sendq, 1, n - 1) \o SubSeq(sendq, n + 1, Len(sendq))
  /\ UNCHANGED <<apc, authCtxDone, listener, serving, chosen, recv, flow,
                 arrivals, first, exchanges,
                 launch, urlPrinted, port>>

\* server.Shutdown(ctx) closes the listener first.
ShutdownClose ==
  /\ apc = "shutdown"
  /\ listener' = Close(listener)
  /\ serving' = FALSE
  /\ apc' = "draining"
  /\ UNCHANGED <<authCtxDone, codeChan, errChan, sendq, chosen, recv, flow,
                 arrivals, first, exchanges,
                 launch, urlPrinted, port>>

\* server.Shutdown(ctx) returns, once no handler is running or ctx is done;
\* startCallbackServer returns through its deferred listener.Close(), and
\* BrowserFlow returns its error or goes on to the exchange.
ShutdownDone ==
  /\ apc = "draining"
  /\ sendq = <<>> \/ authCtxDone
  /\ listener' = Close(listener)
  /\ IF chosen = "code"
       THEN apc' = "exchange" /\ flow' = flow
       ELSE /\ flow' = [err |-> "callback failed", cause |-> recv, token |-> ""]
            /\ apc' = "returned"
  /\ UNCHANGED <<authCtxDone, serving, codeChan, errChan, sendq, chosen, recv,
                 arrivals, first, exchanges,
                 launch, urlPrinted, port>>

\* oauthCfg.Exchange(ctx, code) gets a token.
ExchangeOk ==
  /\ apc = "exchange"
  /\ ~authCtxDone
  /\ exchanges' = exchanges + 1
  /\ flow' = [err |-> "", cause |-> "", token |-> "token"]
  /\ apc' = "returned"
  /\ UNCHANGED <<authCtxDone, listener, serving, codeChan, errChan, sendq,
                 chosen, recv, arrivals, first,
                 launch, urlPrinted, port>>

\* oauthCfg.Exchange(ctx, code) fails.
ExchangeError ==
  /\ apc = "exchange"
  /\ exchanges' = exchanges + 1
  /\ flow' = [err |-> "failed to exchange code for token",
              cause |-> IF authCtxDone THEN "context canceled" ELSE "exchange",
              token |-> ""]
  /\ apc' = "returned"
  /\ UNCHANGED <<authCtxDone, listener, serving, codeChan, errChan, sendq,
                 chosen, recv, arrivals, first,
                 launch, urlPrinted, port>>

\* The steps of the program's own goroutines.
AuthProgram ==
  \/ BrowserFlow
  \/ Listen
  \/ ListenError
  \/ EnterSelect
  \/ HandlerProceed
  \/ ShutdownClose
  \/ ShutdownDone
  \/ ExchangeOk
  \/ ExchangeError

AuthNext ==
  \/ BrowserFlow /\ UNCHANGED <<vars, tokenVars, uiVars, patchVars>>
  \/ Listen /\ UNCHANGED <<vars, tokenVars, uiVars, patchVars>>
  \/ ListenError /\ UNCHANGED <<vars, tokenVars, uiVars, patchVars>>
  \/ EnterSelect /\ UNCHANGED <<vars, tokenVars, uiVars, patchVars>>
  \/ Callback /\ UNCHANGED <<vars, tokenVars, uiVars, patchVars>>
  \/ ServeError /\ UNCHANGED <<vars, tokenVars, uiVars, patchVars>>
  \/ AuthCancel /\ UNCHANGED <<vars, tokenVars, uiVars, patchVars>>
  \/ HandlerProceed /\ UNCHANGED <<vars, tokenVars, uiVars, patchVars>>
  \/ ShutdownClose /\ UNCHANGED <<vars, tokenVars, uiVars, patchVars>>
  \/ ShutdownDone /\ UNCHANGED <<vars, tokenVars, uiVars, patchVars>>
  \/ ExchangeOk /\ UNCHANGED <<vars, tokenVars, uiVars, patchVars>>
  \/ ExchangeError /\ UNCHANGED <<vars, tokenVars, uiVars, patchVars>>

SpecAuth == AuthInit /\ [][AuthNext]_allVars

\* The Go scheduler runs every goroutine that can run: a step of the program
\* that stays possible is taken. Requests and cancellation come from outside
\* and need never come.
SpecAuthLive ==
  /\ AuthInit
  /\ [][AuthNext]_allVars
  /\ WF_allVars(AuthProgram /\ UNCHANGED <<vars, tokenVars, uiVars, patchVars>>)

\* C16: whenever BrowserFlow has returned, on whichever path (a code, a
\* callback error, cancellation, a failed exchange), the loopback listener
\* is not open any more.
C16_ListenerClosedOnReturn ==
  apc = "returned" => listener # "open"

C16_Witness ==
  /\ apc = "returned"
  /\ listener = "closed"
  /\ chosen = "ctx"

\* The select has resolved the wait.
Resolved == chosen # ""

\* C17: the wait resolves once and the first event wins: the case the select
\* takes is the first of the events (a callback's send, cancellation) that
\* happened, with its value, and a later event never replaces it.
C17_FirstEventWins ==
  Resolved => chosen = first.kind /\ recv = first.val

\* C18: when no request ever reaches the callback and nobody cancels, the
\* wait ends, with a Timeout failure once the timeout has elapsed: BrowserFlow
\* does not wait for ever. Stated as: in every run a request arrives, or ctx
\* is cancelled, or BrowserFlow returns.
C18_WaitEnds ==
  <>(arrivals > 0 \/ authCtxDone \/ apc = "returned")

Denials == {q \in Queries : q.error # "" \/ q.state # expectedState}

C21_BindFailureFallsBack ==
  ~(apc = "returned" /\ flow.cause = "failed to find available port")

\* C22: a failed browser launch does not make BrowserFlow fail, and the
\* authorization URL is printed in every run, whether the launch succeeded
\* or not: once the launch is over, the URL has been printed.
C22_UrlAlwaysPrinted ==
  launch # "" => urlPrinted

(* ============================ terminal UI ============================= *)
\* tui.Run and the Bubble Tea program it starts.  The program delivers one
\* message at a time to Update and draws View's frame each time Update has
\* returned; a load function fetches inside Update, so a fetch is a step of
\* its own during which the screen keeps the frame drawn before.

UIInit ==
  /\ ClientIdle
  /\ TokenIdle
  /\ AuthIdle
  /\ tui = "start"
  /\ credential \in {"valid", "expired", "missing"}
  /\ UIFresh

\* Run reads the token file and gives up without one; New then asks
\* TokenExists, by which time the file may be gone.
Run ==
  /\ tui = "start"
  /\ IF credential = "missing"
     THEN tui' = "failed" /\ UNCHANGED <<credential, model>>
     ELSE /\ tui' = "running"
          /\ credential' \in {credential, "missing"}
          /\ model' = New(credential' # "missing")
  /\ screen' = IF tui' = "running" THEN View(model') ELSE screen
  /\ UNCHANGED <<held, delivered>>

\* Update is called with ms and runs until it returns or blocks in a fetch.
Deliver(ms) ==
  LET r == Update(model, ms, Waiting)
  IN  /\ tui = "running"
      /\ delivered < MaxMessages
      /\ delivered' = delivered + 1
      /\ model' = r.m
      /\ held' = IF r.m.IsLoading THEN [m |-> model, msg |-> ms] ELSE NotHeld
      /\ tui' = IF r.cmd = "quit" THEN "quit"
                ELSE IF r.m.IsLoading THEN "fetching" ELSE "running"
      /\ screen' = IF tui' = "running" THEN View(r.m) ELSE screen
      /\ UNCHANGED credential

KeyMsg == \E k \in Keys : Deliver(Key(k))

MouseMsg == \E ms \in MouseMsgs : Deliver(ms)

WindowSize == Deliver(WindowSizeMsg)

\* The requests of a load that failed: the list request, or the submission
\* requests of loadGrades.
Failures(o) ==
  IF o.state = "error" THEN 1
  ELSE Cardinality({k \in 1..Len(o.subs) : o.subs[k] = "error"})

\* The fetch answers o and Update runs to its return.  A request made with
\* a token that is expired and cannot be refreshed fails.
Fetch(o) ==
  /\ tui = "fetching"
  /\ o \in Outcomes(model.CurrentView)
  /\ credential = "valid" \/ o.state = "error"
  /\ model' = Update(held.m, held.msg, o).m
  /\ held' = NotHeld
  /\ tui' = "running"
  /\ screen' = View(model')
  /\ UNCHANGED <<credential, delivered>>

FetchDone == \E o \in Outcomes(model.CurrentView) : Fetch(o)

UINext ==
  \/ Run /\ UNCHANGED <<vars, tokenVars, authVars, patchVars>>
  \/ KeyMsg /\ UNCHANGED <<vars, tokenVars, authVars, patchVars>>
  \/ MouseMsg /\ UNCHANGED <<vars, tokenVars, authVars, patchVars>>
  \/ WindowSize /\ UNCHANGED <<vars, tokenVars, authVars, patchVars>>
  \/ FetchDone /\ UNCHANGED <<vars, tokenVars, authVars, patchVars>>

SpecUI == UIInit /\ [][UINext]_allVars

\* C23: from the main menu with no course chosen, selecting Coursework,
\* Grades or Announcements shows the course picker; confirming an entry of the
\* picker then shows the list of the kind that was selected and starts its
\* fetch for the course picked.
C23_PickerLeadsToList ==
  [][/\ ( /\ Deliver(Key("enter"))
          /\ model.AuthState = "AuthAuthenticated"
          /\ model.CurrentView = "ViewMainMenu"
          /\ model.SelectedCourseID = ""
          /\ menuItems[model.Menu + 1] \in CourseViews )
        => model'.CurrentView = "ViewCoursePicker"
     /\ ( /\ Deliver(Key("enter"))
          /\ model.CurrentView = "ViewCoursePicker"
          /\ model.CoursePickerIndex < Len(model.Courses) )
        => /\ model'.CurrentView = menuItems[model.Menu + 1]
           /\ tui' = "fetching"
           /\ model'.SelectedCourseID
                = model.Courses[model.CoursePickerIndex + 1]
    ]_allVars

\* C24 as claimed: Back or Quit in a view other than the main menu shows the
\* main menu and the program goes on; Back or Quit in the main menu ends the
\* program.
C24_BackOrQuit ==
  [][\A k \in {"esc", "q"} :
       Deliver(Key(k))
         => IF model.CurrentView # "ViewMainMenu"
            THEN model'.CurrentView = "ViewMainMenu" /\ tui' = "running"
            ELSE tui' = "quit"
    ]_allVars

\* C24, amended: Back or Quit in a view other than the main menu shows the
\* main menu and the program goes on; Quit in the main menu ends the program,
\* and Back in the main menu leaves the Model as it is and the program goes
\* on.
C24_BackToMenuQuitEnds ==
  [][/\ \A k \in {"esc", "q"} :
          (Deliver(Key(k)) /\ model.CurrentView # "ViewMainMenu")
            => model'.CurrentView = "ViewMainMenu" /\ tui' = "running"
     /\ (Deliver(Key("q")) /\ model.CurrentView = "ViewMainMenu")
          => tui' = "quit"
     /\ (Deliver(Key("esc")) /\ model.CurrentView = "ViewMainMenu")
          => model' = model /\ tui' = "running"
    ]_allVars

\* Back or Quit has left a list for the main menu, and the program has ended
\* there.
C24_Witness ==
  /\ tui = "quit"
  /\ model.CurrentView = "ViewMainMenu"
  /\ model.PreviousView \in ContentViews

\* C25: Enter in the error view and Enter in the authentication-required
\* view both show the main menu.
C25_AcknowledgeReturnsToMenu ==
  [][(Deliver(Key("enter"))
        /\ model.CurrentView \in {"ViewError", "ViewAuthRequired"})
       => model'.CurrentView = "ViewMainMenu"
    ]_allVars

\* C26: when a request of a load fails, the list request or any of the
\* submission requests of loadGrades, the load ends in the error view with
\* the message of a failed load.
C26_EveryFetchFailureShown ==
  [][\A o \in Outcomes(model.CurrentView) :
       (Fetch(o) /\ Failures(o) > 0)
         => /\ model'.CurrentView = "ViewError"
            /\ model'.ErrorMsg
                 \in {"Failed to load classes", "Failed to load classwork",
                      "Failed to load grades", "Failed to load announcements"}
    ]_allVars

\* C27: the selection index of the coursework, grades and announcements
\* lists and of the course picker is within [0, length - 1] whenever its list
\* is not empty.
C27_SelectionsInRange ==
  /\ model.Coursework > 0
       => model.SelectedCoursework \in 0..(model.Coursework - 1)
  /\ model.Grades > 0 => model.SelectedGrade \in 0..(model.Grades - 1)
  /\ model.Announcements > 0
       => model.SelectedAnnouncement \in 0..(model.Announcements - 1)
  /\ model.Courses # <<>>
       => model.CoursePickerIndex \in 0..(Len(model.Courses) - 1)

Selection(m) ==
  <<m.SelectedCoursework, m.SelectedGrade, m.SelectedAnnouncement,
    m.CoursePickerIndex>>

\* The selection index of the list that the load of view fills.
SelectionOf(m, view) ==
  CASE view = "ViewCoursework" -> m.SelectedCoursework
    [] view = "ViewGrades" -> m.SelectedGrade
    [] view = "ViewAnnouncements" -> m.SelectedAnnouncement
    [] view = "ViewCoursePicker" -> m.CoursePickerIndex
    [] OTHER -> 0

\* C28: a load that fills a list (on entering its view, on Refresh, on
\* entering the picker again) leaves that list's selection index at 0, and a
\* message that is neither Up nor Down and starts no load leaves every
\* selection index as it was.
C28_ReloadResetsSelection ==
  [][/\ \A o \in Outcomes(model.CurrentView) :
          (Fetch(o) /\ o.state = "ok")
            => SelectionOf(model', model.CurrentView) = 0
     /\ \A ms \in {Key(k) : k \in Keys \ {"up", "down"}}
                  \cup MouseMsgs \cup {WindowSizeMsg} :
          (Deliver(ms) /\ tui' # "fetching")
            => Selection(model') = Selection(model)
    ]_allVars

\* C29: a load attempted without a valid credential (no token file, or a
\* token that is expired and cannot be refreshed) ends in the
\* authentication-required view, and a request that fails although the
\* credential is valid never ends there.
C29_AuthRequiredWithoutCredential ==
  [][/\ ( /\ Deliver(Key("enter"))
          /\ model.CurrentView = "ViewMainMenu"
          /\ menuItems[model.Menu + 1] \in ContentViews
          /\ credential = "missing" )
        => model'.CurrentView = "ViewAuthRequired"
     /\ \A o \in Outcomes(model.CurrentView) :
          (Fetch(o) /\ credential # "valid")
            => model'.CurrentView = "ViewAuthRequired"
     /\ \A o \in Outcomes(model.CurrentView) :
          (Fetch(o) /\ credential = "valid" /\ o.state = "error")
            => model'.CurrentView # "ViewAuthRequired"
    ]_allVars

\* C30: while the fetch of a load is in progress, the frame on the screen is
\* the Loading indicator.
C30_LoadingShownDuringFetch ==
  tui = "fetching" => screen = "Loading"


(* --------------------- the plan's manual paste flow ------------------- *)
\* src/.sisyphus/plans/google-classroom-cli.md: BrowserFlow falls back to
\* manualFlow when tryAutoCallback returns an error.

\* The errors tryAutoCallback returns: the last one after it has exchanged
\* the code of a callback that carried its own state.
AutoErrors ==
  {"failed to listen", "callback error", "timeout", "exchange failed"}

\* The query of the redirect URL the user pastes: its state is the one
\* manualFlow generated, the one tryAutoCallback generated before it
\* ("gc-cli-0"), or another.
Redirects ==
  [error : {"", "access_denied"},
   state : {expectedState, "gc-cli-0", "other"}, code : {"", "c1"}]

\* What fmt.Scanln reads: nothing, a text url.Parse rejects, or a redirect
\* URL with its query.
Lines ==
  {[text |-> t, query |-> [error |-> "", state |-> "", code |-> ""]] :
     t \in {"", "%zz"}}
    \cup {[text |-> "url", query |-> q] : q \in Redirects}

\* manualFlow from the read of the line to the call of Exchange: the error
\* it returns, or the code it goes on to exchange.
Pasted(line) ==
  IF line.text = ""
    THEN [err |-> "no URL", code |-> ""]
    ELSE IF line.text # "url"
      THEN [err |-> "invalid URL", code |-> ""]
      ELSE IF line.query.code = ""
        THEN [err |-> "no code in URL", code |-> ""]
        ELSE [err |-> "", code |-> line.query.code]

ManualInit ==
  /\ ClientIdle
  /\ TokenIdle
  /\ UIIdle
  /\ apc = "fallback"
  /\ chosen \in AutoErrors
  /\ authCtxDone = FALSE
  /\ listener = "none"
  /\ serving = FALSE
  /\ codeChan = <<>>
  /\ errChan = <<>>
  /\ sendq = <<>>
  /\ recv = ""
  /\ flow = NoFlow
  /\ arrivals = 0
  /\ first = NoEvent
  /\ exchanges = IF chosen = "exchange failed" THEN 1 ELSE 0
  /\ launch = ""
  /\ urlPrinted = FALSE
  /\ port = 0

\* manualFlow generates its state and prints the URL and the prompt.
manualFlow ==
  /\ apc = "fallback"
  /\ urlPrinted' = TRUE
  /\ apc' = "paste"
  /\ UNCHANGED <<authCtxDone, listener, serving, codeChan, errChan, sendq,
                 chosen, recv, flow, arrivals, first, exchanges, launch,
                 port>>

\* The user's line is read and parsed; the state its query carries is
\* remembered.
Paste ==
  /\ apc = "paste"
  /\ \E line \in Lines :
       /\ first' = [kind |-> "paste", val |-> line.query.state,
                    at |-> line.text]
       /\ recv' = Pasted(line).code
       /\ IF Pasted(line).err # ""
            THEN /\ flow' = [err |-> Pasted(line).err, cause |-> "paste",
                             token |-> ""]
                 /\ apc' = "returned"
            ELSE /\ flow' = flow
                 /\ apc' = "manual exchange"
  /\ UNCHANGED <<authCtxDone, listener, serving, codeChan, errChan, sendq,
                 chosen, arrivals, exchanges, launch, urlPrinted, port>>

\* oauthCfg.Exchange(ctx, code) of manualFlow succeeds.
ManualExchangeOk ==
  /\ apc = "manual exchange"
  /\ ~authCtxDone
  /\ exchanges' = exchanges + 1
  /\ flow' = [err |-> "", cause |-> "", token |-> "token"]
  /\ apc' = "returned"
  /\ UNCHANGED <<authCtxDone, listener, serving, codeChan, errChan, sendq,
                 chosen, recv, arrivals, first, launch, urlPrinted, port>>

\* oauthCfg.Exchange(ctx, code) of manualFlow fails.
ManualExchangeError ==
  /\ apc = "manual exchange"
  /\ exchanges' = exchanges + 1
  /\ flow' = [err |-> "exchange failed",
              cause |-> IF authCtxDone THEN "context canceled" ELSE "exchange",
              token |-> ""]
  /\ apc' = "returned"
  /\ UNCHANGED <<authCtxDone, listener, serving, codeChan, errChan, sendq,
                 chosen, recv, arrivals, first, launch, urlPrinted, port>>

\* The caller cancels ctx while manualFlow runs.
ManualCancel ==
  /\ apc \in {"fallback", "paste", "manual exchange"}
  /\ ~authCtxDone
  /\ authCtxDone' = TRUE
  /\ UNCHANGED <<apc, listener, serving, codeChan, errChan, sendq, chosen,
                 recv, flow, arrivals, first, exchanges, launch, urlPrinted,
                 port>>

ManualNext ==
  \/ manualFlow /\ UNCHANGED <<vars, tokenVars, uiVars, patchVars>>
  \/ Paste /\ UNCHANGED <<vars, tokenVars, uiVars, patchVars>>
  \/ ManualExchangeOk /\ UNCHANGED <<vars, tokenVars, uiVars, patchVars>>
  \/ ManualExchangeError /\ UNCHANGED <<vars, tokenVars, uiVars, patchVars>>
  \/ ManualCancel /\ UNCHANGED <<vars, tokenVars, uiVars, patchVars>>

SpecManual == ManualInit /\ [][ManualNext]_allVars

\* C33: once the wait of startCallbackServer has resolved, BrowserFlow
\* returns, whatever callback requests arrive and however they interleave:
\* no handler stays blocked on its channel send and server.Shutdown does not
\* wait forever on one.
C33_ResolvedWaitReturns ==
  (chosen # "") ~> (apc = "returned")

\* C32: while the loopback listener of a BrowserFlow call is open, the
\* redirect URI of the authorization URL (and of the exchange) designates
\* the host, port and path the listener serves.
C32_RedirectReachesListener ==
  listener = "open" => RedirectURL = Serving(port)

\* C31: in every authorization flow, the manual paste flow included, the
\* code is exchanged only if the state carried by the redirect equals the
\* state generated for the flow.
C31_ExchangeOnlyOnMatchingState ==
  apc = "returned" /\ first.kind = "paste" /\ recv # ""
    => first.val = expectedState

====
